---- MODULE Spec2Model ----
(***************************************************************************)
(* Model of the listwise reranker: batch partitioning (batches.ts), the    *)
(* numeric clamp (lib/number), and Reranker.rerank with its per-batch      *)
(* scoring calls, ranking and fallbacks (reranker.ts).                     *)
(*                                                                         *)
(* Scores are fixed-point with one decimal digit: the integer s stands for *)
(* the JavaScript number s/10, so Pt(10) is the score 10 and 96 is 9.6.    *)
(* A JavaScript value is a record [k |-> kind, n |-> payload].             *)
(***************************************************************************)
EXTENDS Integers, Sequences, FiniteSets, TLC

VARIABLES
    candidates,   \* the caller's list handed to rerank
    cfg,          \* this.cfg: BATCH_SIZE, TINY_BATCH_FRACTION (percent), RELEVANCY_THRESHOLD
    extractors,   \* behaviour of extractors.key / extractors.summary
    pc,           \* position of the rerank call
    path,         \* which path of rerank was taken
    batches,      \* the batches produced by createBatches inside batchProcess
    resp,         \* per batch: what the scoring client did for that batch's call
    results,      \* per batch: the slot of Promise.all for that batch
    order,        \* the batches in the order their calls were handled
    calls,        \* number of llm.call invocations
    warns,        \* number of logger.warn invocations
    outcome,      \* settlement of the promise returned by rerank
    result,       \* the list the promise resolved with
    ctx,          \* the context given to the constructor: ctx.llm, GROQ_API_KEY
    llm,          \* this.llm, the client the constructor selected
    earlier,         \* what an earlier rerank call on this instance did and returned
    groq,         \* one call of the default Groq client
    started,      \* the batches whose scoring call was started, in that order
    loop,         \* the locals i and out of the loop of sliceIntoFixedBatches
    fnPc,         \* position of a direct call of a pure function
    fnIn,         \* its arguments
    fnOut         \* its return value

vars == <<candidates, cfg, extractors, pc, path, batches, resp, results, order,
          calls, warns, outcome, result, ctx, llm, earlier, started, loop, groq,
          fnPc, fnIn, fnOut>>

rerankVars == <<candidates, cfg, extractors, pc, path, batches, resp, results,
                order, calls, warns, outcome, result, ctx, llm, earlier, started, loop>>

fnVars == <<fnPc, fnIn, fnOut>>

-----------------------------------------------------------------------------
(* Bounds *)

MaxN == 4          \* longest candidate list handed to rerank
MaxRank == 3       \* longest batch handed directly to rankAndFilter
MaxNum == 4        \* longest batch of numeric scores handed to rankAndFilter
MaxKeys == 3       \* longest batch handed directly to ensureUniqueKeys
MaxCtor == 2       \* longest candidate list handed to a freshly built instance
MaxTwice == 3      \* longest candidate list handed twice to the same instance
MaxLive == 3       \* longest candidate list in the step-by-step run of rerank
MaxItems == 6      \* longest list handed directly to the batch helpers
MaxSize == 4       \* largest batch size and tiny threshold handed to them
MaxBatches == 3    \* most batches in a list handed to mergeTinyFinalBatch
MaxBatchLen == 2   \* longest batch in such a list

-----------------------------------------------------------------------------
(* Generic helpers *)

Range(s) == {s[i] : i \in 1..Len(s)}

RECURSIVE flat(_)
flat(ss) == IF ss = <<>> THEN <<>> ELSE Head(ss) \o flat(Tail(ss))

Pt(n) == n * 10

-----------------------------------------------------------------------------
(* JavaScript values that can sit in a score map *)

Number(n) == [k |-> "number", n |-> n]
Infinity == [k |-> "infinity", n |-> 1]
NaN == [k |-> "nan", n |-> 0]
Undefined == [k |-> "undefined", n |-> 0]
Null == [k |-> "null", n |-> 0]
True == [k |-> "boolean", n |-> Pt(1)]
NumString(n) == [k |-> "numstring", n |-> n]
Text == [k |-> "text", n |-> 0]

\* ToNumber gives a finite number for these kinds, NaN or an infinity otherwise.
IsFinite(v) == v.k \in {"number", "numstring", "boolean", "null"}

\* v < m and v > m for a finite number m: false whenever ToNumber(v) is NaN.
JsLt(v, m) == IsFinite(v) /\ v.n < m
JsGt(v, m) == (v.k = "infinity") \/ (IsFinite(v) /\ v.n > m)

\* a > b for two values: false whenever either side is NaN
JsGtValue(a, b) ==
    IF b.k = "infinity" THEN FALSE
    ELSE IsFinite(b) /\ JsGt(a, b.n)

\* x !== y
StrictNotEqual(x, y) == (x.k = "nan") \/ (x # y)

\* x - y as a sort comparator's return value: NaN counts as 0.
Minus(x, y) == IF IsFinite(x) /\ IsFinite(y) THEN x.n - y.n ELSE 0

-----------------------------------------------------------------------------
(* lib/number *)

\* clamp that applies the lower bound only
clamp_noMax(n, min, max) == IF JsLt(n, min) THEN Number(min) ELSE n

clamp(n, min, max) ==
    LET out1 == IF JsLt(n, min) THEN Number(min) ELSE n
        out2 == IF JsGt(out1, max) THEN Number(max) ELSE out1
    IN  out2

-----------------------------------------------------------------------------
(* batches.ts *)

RECURSIVE sliceLoop(_, _, _, _)
sliceLoop(items, size, i, out) ==
    IF i < Len(items)
    THEN sliceLoop(items, size, i + size,
                   Append(out, SubSeq(items, i + 1,
                                      IF i + size < Len(items) THEN i + size ELSE Len(items))))
    ELSE out

\* a loop that starts at the second item
sliceIntoFixedBatches_fromOne(items, size) == sliceLoop(items, size, 1, <<>>)

sliceIntoFixedBatches(items, size) == sliceLoop(items, size, 0, <<>>)

\* merge that ignores the threshold
mergeTinyFinalBatch_always(bs, tinyThreshold) ==
    IF Len(bs) < 2 \/ Len(bs[Len(bs)]) = 0 THEN bs
    ELSE Append(SubSeq(bs, 1, Len(bs) - 2), bs[Len(bs) - 1] \o bs[Len(bs)])

\* merge that looks at the new last batch again after merging
RECURSIVE mergeTinyFinalBatch_repeat(_, _)
mergeTinyFinalBatch_repeat(bs, tinyThreshold) ==
    IF Len(bs) < 2 THEN bs
    ELSE IF Len(bs[Len(bs)]) = 0 \/ Len(bs[Len(bs)]) > tinyThreshold THEN bs
    ELSE mergeTinyFinalBatch_repeat(
             Append(SubSeq(bs, 1, Len(bs) - 2), bs[Len(bs) - 1] \o bs[Len(bs)]),
             tinyThreshold)

\* merge that appends the last batch to the previous one and keeps it too
mergeTinyFinalBatch_keepsLast(bs, tinyThreshold) ==
    IF Len(bs) < 2 THEN bs
    ELSE IF Len(bs[Len(bs)]) = 0 \/ Len(bs[Len(bs)]) > tinyThreshold THEN bs
    ELSE [bs EXCEPT ![Len(bs) - 1] = bs[Len(bs) - 1] \o bs[Len(bs)]]

\* merge that puts the last batch in front of the previous one
mergeTinyFinalBatch_lastFirst(bs, tinyThreshold) ==
    IF Len(bs) < 2 THEN bs
    ELSE IF Len(bs[Len(bs)]) = 0 \/ Len(bs[Len(bs)]) > tinyThreshold THEN bs
    ELSE Append(SubSeq(bs, 1, Len(bs) - 2), bs[Len(bs)] \o bs[Len(bs) - 1])

mergeTinyFinalBatch(bs, tinyThreshold) ==
    IF Len(bs) < 2 THEN bs
    ELSE LET last == bs[Len(bs)]
         IN  IF Len(last) = 0 \/ Len(last) > tinyThreshold THEN bs
             ELSE LET prev == bs[Len(bs) - 1]
                  IN  Append(SubSeq(bs, 1, Len(bs) - 2), prev \o last)

\* Math.ceil(tinyFraction * size), the fraction given in percent
tinyThresholdOf(size, tinyPercent) == (tinyPercent * size + 99) \div 100

\* threshold rounded down instead of up
createBatches_floor(items, size, tinyPercent) ==
    mergeTinyFinalBatch(sliceIntoFixedBatches(items, size), (tinyPercent * size) \div 100)

createBatches(items, size, tinyPercent) ==
    mergeTinyFinalBatch(sliceIntoFixedBatches(items, size),
                        tinyThresholdOf(size, tinyPercent))

-----------------------------------------------------------------------------
(* reranker.ts: the pure steps of one batch *)

ItemsOf(xs) == [i \in 1..Len(xs) |-> xs[i].item]

\* extractors.key(item); the 0-based position is the candidate's idx
prepareCandidates(cands) ==
    [i \in 1..Len(cands) |-> [item |-> cands[i], idx |-> i - 1, baseKey |-> cands[i].key]]

RECURSIVE uniqueLoop(_, _, _, _)
uniqueLoop(itemsBase, i, counts, out) ==
    IF i > Len(itemsBase) THEN out
    ELSE LET c == itemsBase[i]
             n == (IF c.baseKey \in DOMAIN counts THEN counts[c.baseKey] ELSE 0) + 1
             counts2 == [k \in (DOMAIN counts) \cup {c.baseKey} |->
                            IF k = c.baseKey THEN n ELSE counts[k]]
             key == IF n = 1 THEN c.baseKey
                    ELSE c.baseKey \o " (" \o ToString(c.idx) \o ")"
         IN  uniqueLoop(itemsBase, i + 1, counts2,
                        Append(out, [item |-> c.item, idx |-> c.idx, key |-> key]))

\* a counts map kept on the instance: what an earlier call counted is still there
newCounts_leaked ==
    IF earlier.done
    THEN [k \in {c.key : c \in Range(candidates)} |->
             Cardinality({i \in 1..Len(candidates) : candidates[i].key = k})]
    ELSE <<>>

\* const counts = new Map<string, number>()
newCounts == <<>>

\* disambiguation that drops the later candidates of a base key
ensureUniqueKeys_dedup(itemsBase) ==
    LET First(c) == \A d \in Range(itemsBase) : d.baseKey = c.baseKey => d.idx >= c.idx
        kept == SelectSeq(itemsBase, First)
    IN  [i \in 1..Len(kept) |->
            [item |-> kept[i].item, idx |-> kept[i].idx, key |-> kept[i].baseKey]]

\* disambiguation that renames every candidate, the first of a base key too
ensureUniqueKeys_renamesAll(itemsBase) ==
    [i \in 1..Len(itemsBase) |->
        [item |-> itemsBase[i].item, idx |-> itemsBase[i].idx,
         key |-> itemsBase[i].baseKey \o " (" \o ToString(itemsBase[i].idx) \o ")"]]

ensureUniqueKeys(itemsBase) == uniqueLoop(itemsBase, 1, newCounts, <<>>)

\* the keys a batch's request names, in order (schema.required)
requestOf(batch) == [i \in 1..Len(batch) |-> ensureUniqueKeys(batch)[i].key]

\* schema.ts: one property per key; an object holds a property name once
buildRelevancySchema(keys) == [properties |-> Range(keys), required |-> keys]

\* (scores as any)[key]
Lookup(scores, key) == IF key \in DOMAIN scores THEN scores[key] ELSE Undefined

\* a comparator that ranks the lowest score first
compare_ascending(a, b) ==
    IF StrictNotEqual(b.score, a.score) THEN Minus(a.score, b.score)
    ELSE a.idx - b.idx

\* the sort comparator of rankAndFilter
compare(a, b) ==
    IF StrictNotEqual(b.score, a.score) THEN Minus(b.score, a.score)
    ELSE a.idx - b.idx

\* Array.prototype.sort is stable: an element moves left only past elements
\* the comparator puts strictly after it.
RECURSIVE insert(_, _)
insert(s, x) ==
    IF s = <<>> THEN <<x>>
    ELSE IF compare(s[Len(s)], x) > 0
         THEN Append(insert(SubSeq(s, 1, Len(s) - 1), x), s[Len(s)])
         ELSE Append(s, x)

RECURSIVE sort(_)
sort(s) == IF s = <<>> THEN <<>> ELSE insert(sort(SubSeq(s, 1, Len(s) - 1)), s[Len(s)])

\* a filter that keeps a score equal to the threshold
passesThreshold_inclusive(score, threshold) ==
    JsGtValue(score, threshold)
    \/ (IsFinite(score) /\ IsFinite(threshold) /\ score.n = threshold.n)

passesThreshold(score, threshold) == JsGtValue(score, threshold)

scoreAll(items, scores) ==
    [i \in 1..Len(items) |->
        [item |-> items[i].item, idx |-> items[i].idx,
         score |-> clamp(Lookup(scores, items[i].key), Pt(0), Pt(10))]]

rankAndFilter(items, scores, threshold) ==
    LET scored == scoreAll(items, scores)
        filtered == SelectSeq(scored, LAMBDA x : passesThreshold(x.score, threshold))
        sorted == sort(filtered)
    IN  ItemsOf(sorted)

-----------------------------------------------------------------------------
(* What the scoring client can do with one call *)

NoData == [t |-> "none", map |-> <<>>]
Throws == [kind |-> "throw", data |-> NoData]             \* llm.call throws synchronously
Rejects == [kind |-> "reject", data |-> NoData]           \* the promise rejects
NoEnvelope == [kind |-> "noEnvelope", data |-> NoData]    \* resolves with null/undefined
Pending == [kind |-> "pending", data |-> NoData]          \* not settled yet
Resolves(d) == [kind |-> "resolve", data |-> d]           \* resolves with { data: d }

DataNull == [t |-> "null", map |-> <<>>]
DataUndefined == [t |-> "undefined", map |-> <<>>]
DataString == [t |-> "string", map |-> <<>>]
DataObject(m) == [t |-> "object", map |-> m]

\* the payload handed on unchecked
fetchScores_unchecked(data) == data

\* null when the payload is missing or is not an object
fetchScores(data) ==
    IF data.t \in {"null", "undefined"} \/ data.t # "object" THEN DataNull ELSE data

Fulfilled(v) == [ok |-> TRUE, value |-> v]
Rejected == [ok |-> FALSE, value |-> <<>>]

\* a batch without scores comes back empty
processBatch_emptyOnNull(batch, r, threshold) ==
    LET keyed == ensureUniqueKeys(batch)
    IN  IF r.kind # "resolve" THEN Rejected
        ELSE IF fetchScores(r.data) = DataNull THEN Fulfilled(<<>>)
        ELSE Fulfilled(rankAndFilter(keyed, fetchScores(r.data).map, threshold))

\* the promise of processBatch, given what the client did
processBatch(batch, r, threshold) ==
    LET keyed == ensureUniqueKeys(batch)
    IN  IF r.kind # "resolve" THEN Rejected
        ELSE LET scores == fetchScores(r.data)
             IN  IF scores = DataNull THEN Fulfilled(ItemsOf(keyed))
                 ELSE Fulfilled(rankAndFilter(keyed, scores.map, threshold))

\* a handler that drops the failed batch
onError_drops(batch) == <<>>

\* a handler that returns the failed batch back to front
onError_reversed(batch) == [i \in 1..Len(batch) |-> batch[Len(batch) + 1 - i].item]

\* the onError handler rerank passes to batchProcess
onError(batch) == ItemsOf(batch)

\* the async mapper of batchProcess: try { await fn(b) } catch { onError(b) }
batchTask(batch, r, threshold) ==
    LET p == processBatch(batch, r, threshold)
    IN  IF p.ok THEN p.value ELSE onError(batch)

\* a map that visits the batches from the last to the first
startOrder_reversed(bs) == [b \in 1..Len(bs) |-> Len(bs) + 1 - b]

\* batches.map(async (b) => ...): each mapper runs up to its llm.call before
\* the next batch is visited
startOrder(bs) == [b \in 1..Len(bs) |-> b]

\* values kept in the order the tasks finish
promiseAllStore_byCompletion(res, b, v) ==
    LET free == CHOOSE i \in 1..Len(res) :
                    ~res[i].done /\ \A j \in 1..(i - 1) : res[j].done
    IN  [res EXCEPT ![free] = [done |-> TRUE, value |-> v]]

\* Promise.all keeps each task's value in the slot of its batch
promiseAllStore(res, b, v) == [res EXCEPT ![b] = [done |-> TRUE, value |-> v]]

\* a combinator that is fulfilled by the first task that finishes
promiseAllFulfilled_first(res) == \E b \in 1..Len(res) : res[b].done

\* await Promise.all(...): fulfilled when every task has its value (no task
\* rejects, each catches its own error)
promiseAllFulfilled(res) == \A b \in 1..Len(res) : res[b].done

\* results.flat()
flatResults(res) == flat([b \in 1..Len(res) |-> res[b].value])

\* only the empty list short-circuits
isFastPath_emptyOnly(cands) == Len(cands) = 0

isFastPath(cands) == Len(cands) = 0 \/ Len(cands) = 1

\* a catch block that rethrows
rerankCatch_rethrows(cands) == [outcome |-> "rejected", value |-> <<>>]

\* a catch block that returns nothing
rerankCatch_empty(cands) == [outcome |-> "resolved", value |-> <<>>]

\* the catch block of rerank
rerankCatch(cands) == [outcome |-> "resolved", value |-> cands]

-----------------------------------------------------------------------------
(* The inputs of one rerank call *)

BatchSizes == {2, 3}
TinyPercents == {0, 20, 100}
Thresholds == {Number(Pt(0)), Number(Pt(5))}
ExtractorBehaviours == {"ok", "keyThrows", "summaryThrows"}

\* the values a score map of a rerank call holds for one key (Undefined: key absent)
CallValues == {Undefined, Number(Pt(0)), Number(Pt(5)), Number(Pt(10))}

\* the key lists of the callers: all distinct, all equal, alternating, or with a
\* third key that reads like a disambiguated one
KeyLists(n) ==
    {[i \in 1..n |-> "K" \o ToString(i - 1)],
     [i \in 1..n |-> "Same"],
     [i \in 1..n |-> IF i % 2 = 1 THEN "A" ELSE "B"],
     [i \in 1..n |-> IF i = 3 THEN "A (1)" ELSE "A"]}

CandidateLists ==
    UNION {{[i \in 1..n |-> [id |-> i, key |-> ks[i]]] : ks \in KeyLists(n)} : n \in 0..MaxN}

KeysOf(batch) == {c.key : c \in Range(ensureUniqueKeys(batch))}

\* every way one pending call can settle
Settlements(batch) ==
    {Rejects, NoEnvelope, Resolves(DataNull), Resolves(DataUndefined), Resolves(DataString)}
    \cup {Resolves(DataObject(m)) : m \in [KeysOf(batch) -> CallValues]}

\* a context that carries its own client
GivenClient == [llm |-> TRUE, groqKey |-> "unset"]

\* no earlier call on this instance
NoEarlier == [done |-> FALSE, requests |-> <<>>, resp |-> <<>>, result |-> <<>>]

\* the client is deterministic: a request it has answered before on this
\* instance is answered the same way again
SameRequest(b, batch) ==
    /\ earlier.done /\ b \in 1..Len(earlier.requests)
    /\ earlier.requests[b] = requestOf(batch)

\* the sets of batches whose llm.call can throw synchronously
ThrownSets(bs) ==
    IF \A b \in 1..Len(bs) : SameRequest(b, bs[b])
    THEN {{b \in 1..Len(bs) : earlier.resp[b] = Throws}}
    ELSE SUBSET (1..Len(bs))

\* the ways the pending call of batch b can settle
Responses(b, batch) ==
    IF SameRequest(b, batch) THEN {earlier.resp[b]} ELSE Settlements(batch)

\* sliceIntoFixedBatches is not running
NoLoop == [i |-> 0, out |-> <<>>, more |-> 0]

\* the Groq client is not in use
NoGroq == [pc |-> "off", roles |-> "ok", remaining |-> 0, attempts |-> <<>>,
           settled |-> [t |-> "none", data |-> "none", code |-> "absent", inner |-> "absent"]]

NoRerank ==
    /\ candidates = <<>> /\ cfg = [BATCH_SIZE |-> 1, TINY_BATCH_FRACTION |-> 0,
                                   RELEVANCY_THRESHOLD |-> Number(0)]
    /\ extractors = "ok" /\ pc = "off" /\ path = "none" /\ batches = <<>>
    /\ resp = <<>> /\ results = <<>> /\ order = <<>> /\ calls = 0 /\ warns = 0
    /\ outcome = "none" /\ result = <<>>
    /\ ctx = GivenClient /\ llm = "ctx.llm" /\ earlier = NoEarlier
    /\ started = <<>> /\ loop = NoLoop

NoFn == fnPc = "off" /\ fnIn = <<>> /\ fnOut = <<>>

Init ==
    /\ candidates \in CandidateLists
    /\ cfg \in [BATCH_SIZE : BatchSizes, TINY_BATCH_FRACTION : TinyPercents,
                RELEVANCY_THRESHOLD : Thresholds]
    /\ extractors \in ExtractorBehaviours
    /\ pc = "idle" /\ path = "none"
    /\ batches = <<>> /\ resp = <<>> /\ results = <<>> /\ order = <<>>
    /\ calls = 0 /\ warns = 0
    /\ outcome = "none" /\ result = <<>>
    /\ ctx = GivenClient /\ llm = "ctx.llm" /\ earlier = NoEarlier
    /\ started = <<>> /\ loop = NoLoop
    /\ NoFn /\ groq = NoGroq

-----------------------------------------------------------------------------
(* rerank *)

\* candidates.length is 0 or 1: return without a scoring call
RerankFast ==
    /\ pc = "idle" /\ isFastPath(candidates)
    /\ pc' = "done" /\ path' = "fast"
    /\ outcome' = "resolved"
    /\ result' = IF Len(candidates) = 0 THEN <<>> ELSE candidates
    /\ UNCHANGED <<candidates, cfg, extractors, ctx, llm, earlier, batches, resp, results, order, calls, warns>>
    /\ UNCHANGED <<started, loop>>
    /\ UNCHANGED <<fnVars, groq>>

\* an extractor throws inside prepareCandidates: the catch block of rerank
RerankThrows ==
    /\ pc = "idle" /\ ~isFastPath(candidates) /\ extractors # "ok"
    /\ pc' = "done" /\ path' = "fallback"
    /\ warns' = warns + 1
    /\ outcome' = rerankCatch(candidates).outcome
    /\ result' = rerankCatch(candidates).value
    /\ UNCHANGED <<candidates, cfg, extractors, ctx, llm, earlier, batches, resp, results, order, calls>>
    /\ UNCHANGED <<started, loop>>
    /\ UNCHANGED <<fnVars, groq>>

\* prepare, partition, and start one scoring call per batch (batches.map);
\* thrown is the set of batches whose llm.call throws synchronously
RerankStart ==
    /\ pc = "idle" /\ ~isFastPath(candidates) /\ extractors = "ok"
    /\ LET bs == createBatches(prepareCandidates(candidates), cfg.BATCH_SIZE,
                               cfg.TINY_BATCH_FRACTION)
       IN  /\ batches' = bs
           /\ calls' = calls + Len(bs)
           /\ started' = started \o startOrder(bs)
           /\ \E thrown \in ThrownSets(bs) :
                 resp' = [b \in 1..Len(bs) |-> IF b \in thrown THEN Throws ELSE Pending]
           /\ results' = [b \in 1..Len(bs) |-> [done |-> FALSE, value |-> <<>>]]
    /\ pc' = "awaiting" /\ path' = "normal"
    /\ UNCHANGED <<candidates, cfg, extractors, ctx, llm, earlier, order, warns, outcome, result>>
    /\ UNCHANGED loop
    /\ UNCHANGED <<fnVars, groq>>

\* the call of batch b settles and the rest of its task runs
Settle(b) ==
    /\ pc = "awaiting" /\ b \in 1..Len(batches) /\ ~results[b].done
    /\ \E r \in (IF resp[b] = Throws THEN {Throws} ELSE Responses(b, batches[b])) :
          /\ resp' = [resp EXCEPT ![b] = r]
          /\ results' = promiseAllStore(results, b,
                           batchTask(batches[b], r, cfg.RELEVANCY_THRESHOLD))
          /\ warns' = IF processBatch(batches[b], r, cfg.RELEVANCY_THRESHOLD).ok
                      THEN warns ELSE warns + 1
    /\ order' = Append(order, b)
    /\ UNCHANGED <<candidates, cfg, extractors, ctx, llm, earlier, pc, path, batches, calls, outcome, result>>
    /\ UNCHANGED <<started, loop>>
    /\ UNCHANGED <<fnVars, groq>>

\* Promise.all has every value: flatten and resolve
Finish ==
    /\ pc = "awaiting" /\ promiseAllFulfilled(results)
    /\ pc' = "done"
    /\ outcome' = "resolved"
    /\ result' = flatResults(results)
    /\ UNCHANGED <<candidates, cfg, extractors, ctx, llm, earlier, path, batches, resp, results, order,
                   calls, warns, started, loop>>
    /\ UNCHANGED <<fnVars, groq>>

Next ==
    \/ RerankFast
    \/ RerankThrows
    \/ RerankStart
    \/ \E b \in 1..MaxN : Settle(b)
    \/ Finish

Spec == Init /\ [][Next]_vars

-----------------------------------------------------------------------------
(* rerank called twice on one instance with the same query and candidates *)

TwiceLists ==
    UNION {{[i \in 1..n |-> [id |-> i, key |-> ks[i]]] : ks \in KeyLists(n)} : n \in 0..MaxTwice}

InitTwice ==
    /\ candidates \in TwiceLists
    /\ cfg \in [BATCH_SIZE : BatchSizes, TINY_BATCH_FRACTION : TinyPercents,
                RELEVANCY_THRESHOLD : Thresholds]
    /\ extractors \in ExtractorBehaviours
    /\ pc = "idle" /\ path = "none"
    /\ batches = <<>> /\ resp = <<>> /\ results = <<>> /\ order = <<>>
    /\ calls = 0 /\ warns = 0
    /\ outcome = "none" /\ result = <<>>
    /\ ctx = GivenClient /\ llm = "ctx.llm" /\ earlier = NoEarlier
    /\ started = <<>> /\ loop = NoLoop
    /\ NoFn /\ groq = NoGroq

\* the caller keeps the first list and calls rerank again with the same
\* arguments; everything local to the first call is gone
RerankAgain ==
    /\ pc = "done" /\ ~earlier.done
    /\ earlier' = [done |-> TRUE,
                   requests |-> [b \in 1..Len(batches) |-> requestOf(batches[b])],
                   resp |-> resp, result |-> result]
    /\ pc' = "idle" /\ path' = "none"
    /\ batches' = <<>> /\ resp' = <<>> /\ results' = <<>> /\ order' = <<>>
    /\ outcome' = "none" /\ result' = <<>> /\ started' = <<>>
    /\ UNCHANGED <<candidates, cfg, extractors, ctx, llm, calls, warns, loop>>
    /\ UNCHANGED <<fnVars, groq>>

NextTwice ==
    \/ RerankFast
    \/ RerankThrows
    \/ RerankStart
    \/ \E b \in 1..MaxN : Settle(b)
    \/ Finish
    \/ RerankAgain

SpecTwice == InitTwice /\ [][NextTwice]_vars

-----------------------------------------------------------------------------
(* providers/groq.ts: one call of the default client *)

\* createWithRetry(3)
MaxAttempts == 3

NoOutcome == [t |-> "none", data |-> "none", code |-> "absent", inner |-> "absent"]

\* what one completion attempt can end in: content that parses, no content,
\* content that is not JSON, or an error thrown by the SDK carrying err.code
\* and err.error.code
Codes == {"absent", "json_validate_failed", "other"}
Content(d) == [t |-> "content", data |-> d, code |-> "absent", inner |-> "absent"]
NoContent == [t |-> "noContent", data |-> "none", code |-> "absent", inner |-> "absent"]
InvalidJson == [t |-> "invalidJson", data |-> "none", code |-> "absent", inner |-> "absent"]
SdkError(c, i) == [t |-> "sdkError", data |-> "none", code |-> c, inner |-> i]
UnsupportedRole == [t |-> "unsupportedRole", data |-> "none", code |-> "absent", inner |-> "absent"]

AttemptOutcomes ==
    {Content("d1"), Content("d2"), NoContent, InvalidJson}
    \cup {SdkError(c, i) : c \in Codes, i \in Codes}

\* retry while any attempt is left
shouldRetry_offByOne(err, remaining) ==
    LET code == IF err.code # "absent" THEN err.code ELSE err.inner
    IN  code = "json_validate_failed" /\ remaining > 0

\* code = err?.code ?? err?.error?.code
shouldRetry(err, remaining) ==
    LET code == IF err.code # "absent" THEN err.code ELSE err.inner
    IN  code = "json_validate_failed" /\ remaining > 1

InitGroq ==
    /\ NoRerank /\ NoFn
    /\ groq \in [pc : {"ready"}, roles : {"ok", "unsupported"}, remaining : {0},
                 attempts : {<<>>}, settled : {NoOutcome}]

\* call: mapToGroqMessages throws on an unsupported role before any attempt,
\* else createWithRetry(3) starts
GroqCall ==
    /\ groq.pc = "ready"
    /\ groq' = IF groq.roles = "unsupported"
               THEN [groq EXCEPT !.pc = "rejected", !.settled = UnsupportedRole]
               ELSE [groq EXCEPT !.pc = "attempting", !.remaining = MaxAttempts]
    /\ UNCHANGED <<rerankVars, fnVars>>

\* one run of createWithRetry(remaining): the attempt, then return, retry or rethrow
GroqAttempt ==
    /\ groq.pc = "attempting"
    /\ \E o \in AttemptOutcomes :
          groq' = IF o.t = "content"
                  THEN [groq EXCEPT !.pc = "resolved", !.attempts = Append(@, o),
                                    !.settled = o]
                  ELSE IF shouldRetry(o, groq.remaining)
                  THEN [groq EXCEPT !.attempts = Append(@, o), !.remaining = @ - 1]
                  ELSE [groq EXCEPT !.pc = "rejected", !.attempts = Append(@, o),
                                    !.settled = o]
    /\ UNCHANGED <<rerankVars, fnVars>>

NextGroq == GroqCall \/ GroqAttempt

SpecGroq == InitGroq /\ [][NextGroq]_vars

-----------------------------------------------------------------------------
(* new Reranker(ctx, extractors, overrides), then rerank *)

\* CONFIG.RERANKER with no environment variable set
CONFIG_RERANKER ==
    [BATCH_SIZE |-> 20, TINY_BATCH_FRACTION |-> 20, RELEVANCY_THRESHOLD |-> Number(Pt(0))]

\* thresholds a caller can override with: below, inside and above the range,
\* and the number NaN
OverrideThresholds ==
    {Number(0 - Pt(1)), Number(Pt(0)), Number(Pt(5)), Number(Pt(10)), Number(Pt(11)), NaN}

\* Partial<RerankerConfig>: has names the fields the caller wrote
Overrides ==
    [has : SUBSET {"BATCH_SIZE", "RELEVANCY_THRESHOLD"},
     BATCH_SIZE : BatchSizes, RELEVANCY_THRESHOLD : OverrideThresholds]

\* { ...CONFIG.RERANKER, ...overrides }
mergeOverrides(defaults, overrides) ==
    [f \in DOMAIN defaults |-> IF f \in overrides.has THEN overrides[f] ELSE defaults[f]]

\* this.cfg.RELEVANCY_THRESHOLD < 0 || this.cfg.RELEVANCY_THRESHOLD > 10
thresholdRejected(t) == JsLt(t, Pt(0)) \/ JsGt(t, Pt(10))

\* ctx.llm, else the default Groq client when GROQ_API_KEY is a non-empty
\* string, else undefined
selectLlmClient(c) ==
    IF c.llm THEN "ctx.llm"
    ELSE IF c.groqKey = "set" THEN "groq"
    ELSE "none"

Contexts == [llm : BOOLEAN, groqKey : {"unset", "empty", "set"}]

CtorCandidates ==
    {[i \in 1..n |-> [id |-> i, key |-> "K" \o ToString(i - 1)]] : n \in 0..MaxCtor}

InitCtor ==
    /\ candidates \in CtorCandidates
    /\ cfg \in {mergeOverrides(CONFIG_RERANKER, o) : o \in Overrides}
    /\ extractors \in ExtractorBehaviours
    /\ ctx \in Contexts /\ llm = "none"
    /\ pc = "new" /\ path = "none"
    /\ batches = <<>> /\ resp = <<>> /\ results = <<>> /\ order = <<>>
    /\ calls = 0 /\ warns = 0
    /\ outcome = "none" /\ result = <<>>
    /\ earlier = NoEarlier /\ started = <<>> /\ loop = NoLoop
    /\ NoFn /\ groq = NoGroq

\* the constructor: validate the threshold, select the client
Construct ==
    /\ pc = "new"
    /\ IF thresholdRejected(cfg.RELEVANCY_THRESHOLD) \/ selectLlmClient(ctx) = "none"
       THEN pc' = "ctorThrew" /\ llm' = llm
       ELSE pc' = "idle" /\ llm' = selectLlmClient(ctx)
    /\ UNCHANGED <<candidates, cfg, extractors, ctx, earlier, path, batches, resp, results,
                   order, calls, warns, outcome, result, started, loop>>
    /\ UNCHANGED <<fnVars, groq>>

NextCtor ==
    \/ Construct
    \/ RerankFast
    \/ RerankThrows
    \/ RerankStart
    \/ \E b \in 1..MaxN : Settle(b)
    \/ Finish

SpecCtor == InitCtor /\ [][NextCtor]_vars

-----------------------------------------------------------------------------
(* new Reranker, then rerank with the loop of sliceIntoFixedBatches run
   one iteration at a time *)

\* BATCH_SIZE overrides: the constructor checks none of them
LiveSizes == {0, 1, 2}

LiveOverrides ==
    [has : SUBSET {"BATCH_SIZE", "RELEVANCY_THRESHOLD"},
     BATCH_SIZE : LiveSizes, RELEVANCY_THRESHOLD : {Number(Pt(0)), Number(Pt(11))}]

LiveCandidates ==
    {[i \in 1..n |-> [id |-> i, key |-> "K" \o ToString(i - 1)]] : n \in 0..MaxLive}

InitLive ==
    /\ candidates \in LiveCandidates
    /\ cfg \in {mergeOverrides(CONFIG_RERANKER, o) : o \in LiveOverrides}
    /\ extractors \in ExtractorBehaviours
    /\ ctx = GivenClient /\ llm = "none"
    /\ pc = "new" /\ path = "none"
    /\ batches = <<>> /\ resp = <<>> /\ results = <<>> /\ order = <<>>
    /\ calls = 0 /\ warns = 0
    /\ outcome = "none" /\ result = <<>>
    /\ earlier = NoEarlier /\ started = <<>> /\ loop = NoLoop
    /\ NoFn /\ groq = NoGroq

\* prepareCandidates, then batchProcess enters createBatches: const out = [], i = 0
RerankPrepare ==
    /\ pc = "idle" /\ ~isFastPath(candidates) /\ extractors = "ok"
    /\ pc' = "slicing" /\ path' = "normal"
    /\ loop' = [i |-> 0, out |-> <<>>, more |-> 0]
    /\ UNCHANGED <<candidates, cfg, extractors, ctx, llm, earlier, batches, resp, results,
                   order, calls, warns, outcome, result, started>>
    /\ UNCHANGED <<fnVars, groq>>

\* one iteration: i < items.length, out.push(items.slice(i, i + size)), i += size.
\* Once out holds more batches than there are items, only the parity of the
\* further iterations is kept, not the batches they push.
SliceStep ==
    /\ pc = "slicing" /\ loop.i < Len(candidates)
    /\ LET items == prepareCandidates(candidates)
           to == IF loop.i + cfg.BATCH_SIZE < Len(items) THEN loop.i + cfg.BATCH_SIZE
                 ELSE Len(items)
       IN  loop' = IF Len(loop.out) <= Len(candidates)
                   THEN [loop EXCEPT !.i = @ + cfg.BATCH_SIZE,
                                     !.out = Append(@, SubSeq(items, loop.i + 1, to))]
                   ELSE [loop EXCEPT !.i = @ + cfg.BATCH_SIZE, !.more = 1 - @]
    /\ UNCHANGED <<candidates, cfg, extractors, ctx, llm, earlier, pc, path, batches, resp,
                   results, order, calls, warns, outcome, result, started>>
    /\ UNCHANGED <<fnVars, groq>>

\* the loop is left: tiny merge, then one scoring call per batch is started
RerankIssue ==
    /\ pc = "slicing" /\ ~(loop.i < Len(candidates))
    /\ LET bs == mergeTinyFinalBatch(loop.out,
                                     tinyThresholdOf(cfg.BATCH_SIZE, cfg.TINY_BATCH_FRACTION))
       IN  /\ batches' = bs
           /\ calls' = calls + Len(bs)
           /\ started' = started \o startOrder(bs)
           /\ \E thrown \in ThrownSets(bs) :
                 resp' = [b \in 1..Len(bs) |-> IF b \in thrown THEN Throws ELSE Pending]
           /\ results' = [b \in 1..Len(bs) |-> [done |-> FALSE, value |-> <<>>]]
    /\ pc' = "awaiting"
    /\ loop' = NoLoop
    /\ UNCHANGED <<candidates, cfg, extractors, ctx, llm, earlier, path, order, warns,
                   outcome, result>>
    /\ UNCHANGED <<fnVars, groq>>

NextLive ==
    \/ Construct
    \/ RerankFast
    \/ RerankThrows
    \/ RerankPrepare
    \/ SliceStep
    \/ RerankIssue
    \/ \E b \in 1..MaxN : Settle(b)
    \/ Finish

\* synchronous code runs on, and every scoring call settles
SpecLive == InitLive /\ [][NextLive]_vars /\ WF_vars(NextLive)

-----------------------------------------------------------------------------
(* rankAndFilter called on one keyed batch *)

RankThresholds == {Number(Pt(0)), Number(Pt(5)), Number(Pt(10))}

\* the values a score map can hold for one key (Undefined: key absent)
RankValues ==
    {Undefined, NaN, Null, True, Text, NumString(Pt(5)),
     Number(0 - Pt(3)), Number(Pt(0)), Number(Pt(5)), Number(Pt(6)), Number(96),
     Number(Pt(10)), Number(Pt(11)), Infinity}

\* a batch as processBatch hands it over: distinct keys, idx ascending
RankBatch(n) ==
    [i \in 1..n |-> [item |-> [id |-> i, key |-> "K" \o ToString(i - 1)],
                     idx |-> i - 1, key |-> "K" \o ToString(i - 1)]]

RankInputs ==
    UNION {[items : {RankBatch(n)},
            scores : [{"K" \o ToString(i - 1) : i \in 1..n} -> RankValues],
            threshold : RankThresholds] : n \in 0..MaxRank}

InitRank ==
    /\ NoRerank
    /\ fnPc = "rank" /\ fnIn \in RankInputs /\ fnOut = <<>>
    /\ groq = NoGroq

CallRankAndFilter ==
    /\ fnPc = "rank"
    /\ fnOut' = rankAndFilter(fnIn.items, fnIn.scores, fnIn.threshold)
    /\ fnPc' = "ranked"
    /\ UNCHANGED fnIn
    /\ UNCHANGED <<rerankVars, groq>>

NextRank == CallRankAndFilter

SpecRank == InitRank /\ [][NextRank]_vars

-----------------------------------------------------------------------------
(* the helpers of batches.ts called on their own *)

\* the list 1..n
Ids(n) == [i \in 1..n |-> i]

\* tinyFraction values in percent: 0, 0.2, 0.25, 0.5, 1
HelperPercents == {0, 20, 25, 50, 100}

\* lists of batches of any shape: lens gives the length of each batch, the
\* items are numbered through
RECURSIVE Offset(_, _)
Offset(lens, b) == IF b = 1 THEN 0 ELSE Offset(lens, b - 1) + lens[b - 1]
Shaped(lens) == [b \in 1..Len(lens) |-> [i \in 1..lens[b] |-> Offset(lens, b) + i]]
BatchLists == {Shaped(lens) : lens \in UNION {[1..k -> 0..MaxBatchLen] : k \in 0..MaxBatches}}

NoArgs == [items |-> <<>>, batches |-> <<>>, size |-> 1, tiny |-> 0]

InitBatches ==
    /\ NoRerank /\ groq = NoGroq /\ fnOut = <<>>
    /\ \/ /\ fnPc = "slice"
          /\ fnIn \in {[NoArgs EXCEPT !.items = Ids(n), !.size = s] :
                           n \in 0..MaxItems, s \in 1..MaxSize}
       \/ /\ fnPc = "merge"
          /\ fnIn \in {[NoArgs EXCEPT !.batches = bs, !.tiny = t] :
                           bs \in BatchLists, t \in 0..MaxSize}
       \/ /\ fnPc = "create"
          /\ fnIn \in {[NoArgs EXCEPT !.items = Ids(n), !.size = s, !.tiny = f] :
                           n \in 0..MaxItems, s \in 1..MaxSize, f \in HelperPercents}

CallSliceIntoFixedBatches ==
    /\ fnPc = "slice"
    /\ fnOut' = sliceIntoFixedBatches(fnIn.items, fnIn.size)
    /\ fnPc' = "sliced"
    /\ UNCHANGED <<fnIn, rerankVars, groq>>

CallMergeTinyFinalBatch ==
    /\ fnPc = "merge"
    /\ fnOut' = mergeTinyFinalBatch(fnIn.batches, fnIn.tiny)
    /\ fnPc' = "merged"
    /\ UNCHANGED <<fnIn, rerankVars, groq>>

\* the function applied to what it returned
CallMergeTinyFinalBatchAgain ==
    /\ fnPc = "merged"
    /\ fnOut' = [first |-> fnOut, second |-> mergeTinyFinalBatch(fnOut, fnIn.tiny)]
    /\ fnPc' = "mergedTwice"
    /\ UNCHANGED <<fnIn, rerankVars, groq>>

CallCreateBatches ==
    /\ fnPc = "create"
    /\ fnOut' = createBatches(fnIn.items, fnIn.size, fnIn.tiny)
    /\ fnPc' = "created"
    /\ UNCHANGED <<fnIn, rerankVars, groq>>

NextBatches ==
    \/ CallSliceIntoFixedBatches
    \/ CallMergeTinyFinalBatch
    \/ CallMergeTinyFinalBatchAgain
    \/ CallCreateBatches

SpecBatches == InitBatches /\ [][NextBatches]_vars

-----------------------------------------------------------------------------
(* ensureUniqueKeys called on one batch of prepared candidates *)

\* base keys of a caller's extractor, one of them shaped like "Key (idx)"
BaseKeys == {"A", "A (1)", "B"}

\* a batch is a slice of the prepared list: consecutive idx from a first one
KeyBatches ==
    UNION {{[i \in 1..n |-> [item |-> [id |-> first + i, key |-> ks[i]],
                              idx |-> first + i - 1, baseKey |-> ks[i]]] :
               ks \in [1..n -> BaseKeys], first \in {0, 1}} : n \in 0..MaxKeys}

InitKeys ==
    /\ NoRerank
    /\ fnPc = "keys" /\ fnIn \in KeyBatches /\ fnOut = <<>>
    /\ groq = NoGroq

CallEnsureUniqueKeys ==
    /\ fnPc = "keys"
    /\ fnOut' = ensureUniqueKeys(fnIn)
    /\ fnPc' = "keyed"
    /\ UNCHANGED fnIn
    /\ UNCHANGED <<rerankVars, groq>>

NextKeys == CallEnsureUniqueKeys

SpecKeys == InitKeys /\ [][NextKeys]_vars

-----------------------------------------------------------------------------
(* rankAndFilter called on a batch whose scores are all numbers *)

\* numbers a model can return: negative, zero, in range, fractional, the upper
\* bound, above it, +Infinity
NumValues ==
    {Number(0 - Pt(3)), Number(Pt(0)), Number(Pt(5)), Number(96),
     Number(Pt(10)), Number(Pt(11)), Infinity}

NumInputs ==
    UNION {[items : {RankBatch(n)},
            scores : [{"K" \o ToString(i - 1) : i \in 1..n} -> NumValues],
            threshold : RankThresholds] : n \in 0..MaxNum}

InitNum ==
    /\ NoRerank
    /\ fnPc = "rank" /\ fnIn \in NumInputs /\ fnOut = <<>>
    /\ groq = NoGroq

NextNum == CallRankAndFilter

SpecNum == InitNum /\ [][NextNum]_vars

-----------------------------------------------------------------------------
(* Properties of rerank *)

Failed(b) == resp[b].kind \in {"throw", "reject", "noEnvelope"}
Scored(b) == resp[b].kind = "resolve" /\ resp[b].data.t = "object"
NoPayload(b) == resp[b].kind = "resolve" /\ resp[b].data.t # "object"
Threshold == cfg.RELEVANCY_THRESHOLD

\* C1: whatever the scoring client and the extractors do, the promise of
\* rerank is never rejected, it is resolved once the call is over, and every
\* element of the resolved list is one of the input candidates.
C1_AlwaysResolvesFromInput ==
    /\ outcome # "rejected"
    /\ pc = "done" =>
          /\ outcome = "resolved"
          /\ \A i \in 1..Len(result) : result[i] \in Range(candidates)

C1_Witness ==
    /\ pc = "done" /\ path = "normal" /\ outcome = "resolved" /\ result # <<>>
    /\ \E b1, b2 \in 1..Len(batches) : resp[b1] = Throws /\ Scored(b2)

\* C2: a batch whose scoring function rejected contributes exactly its own
\* items in input order; every other batch contributes what its own call
\* alone determines; when every batch failed the result is the input list.
C2_BatchFailureContained ==
    /\ \A b \in 1..Len(results) :
          results[b].done =>
             IF Failed(b) THEN results[b].value = ItemsOf(batches[b])
             ELSE results[b].value = processBatch(batches[b], resp[b], Threshold).value
    /\ (pc = "done" /\ path = "normal" /\ \A b \in 1..Len(batches) : Failed(b))
          => result = candidates

C2_Witness ==
    /\ pc = "done" /\ Len(batches) >= 2
    /\ \E b1, b2 \in 1..Len(batches) :
          /\ Failed(b1) /\ results[b1].value = ItemsOf(batches[b1])
          /\ Scored(b2) /\ results[b2].value # ItemsOf(batches[b2])
          /\ results[b2].value # <<>>

C4_TopLevelFallbackReturnsInput ==
    (pc = "done" /\ path = "fallback") => (outcome = "resolved" /\ result = candidates)

C4_Witness ==
    pc = "done" /\ path = "fallback" /\ extractors = "keyThrows" /\ Len(candidates) >= 3

\* C5: a candidate list of length 0 or 1 is returned as it is and no scoring
\* call is ever made for it.
C5_FastPathNoCalls ==
    Len(candidates) <= 1 =>
        /\ calls = 0
        /\ pc = "done" => (result = candidates /\ path = "fast")

C5_Witness == pc = "done" /\ Len(candidates) = 1 /\ result = candidates /\ calls = 0

\* C6: a batch whose call resolved with a payload that is missing or is not
\* an object contributes all of its items in input order, unfiltered.
C6_NoPayloadKeepsBatch ==
    \A b \in 1..Len(results) :
        (results[b].done /\ NoPayload(b)) => results[b].value = ItemsOf(batches[b])

C6_Witness ==
    /\ pc = "done"
    /\ \E b \in 1..Len(batches) :
          results[b].done /\ resp[b] = Resolves(DataString) /\ Len(batches[b]) >= 2

-----------------------------------------------------------------------------
(* Properties of rankAndFilter *)

\* the entry of the input batch that wraps a returned item
RankEntryOf(it) == CHOOSE c \in Range(fnIn.items) : c.item = it
RankClamped(c) == clamp(Lookup(fnIn.scores, c.key), Pt(0), Pt(10))

\* C7: the items rankAndFilter returns are in descending order of clamped
\* score, and of two adjacent items with equal clamped score the earlier one
\* has the smaller original index.
C7_RankedDescendingStable ==
    fnPc = "ranked" =>
        \A i \in 1..(Len(fnOut) - 1) :
            LET a == RankEntryOf(fnOut[i])
                b == RankEntryOf(fnOut[i + 1])
                sa == RankClamped(a)
                sb == RankClamped(b)
            IN  /\ IsFinite(sa) /\ IsFinite(sb)
                /\ sa.n >= sb.n
                /\ sa.n = sb.n => a.idx < b.idx

C7_Witness ==
    /\ fnPc = "ranked" /\ Len(fnOut) = 3
    /\ fnOut # ItemsOf(fnIn.items)
    /\ \E i \in 1..2 :
          RankClamped(RankEntryOf(fnOut[i])).n = RankClamped(RankEntryOf(fnOut[i + 1])).n

\* the score of the data model: a number clamped into [0,10], 0 for an absent key
DataModelScore(v) ==
    IF v = Undefined THEN Pt(0)
    ELSE IF v = Infinity THEN Pt(10)
    ELSE IF v.n < Pt(0) THEN Pt(0)
    ELSE IF v.n > Pt(10) THEN Pt(10)
    ELSE v.n

C11_NonNumbersExcluded ==
    fnPc = "ranked" =>
        \A c \in Range(fnIn.items) :
            Lookup(fnIn.scores, c.key).k
                  \in {"undefined", "nan", "null", "boolean", "numstring", "text"}
               => /\ c.item \notin Range(fnOut)
                  /\ RankClamped(c) \in {Number(Pt(0)), Undefined, NaN, Null, Text}

-----------------------------------------------------------------------------
(* Properties of the batch helpers *)

\* ceil(n / s)
CeilDiv(n, s) == (n + s - 1) \div s

\* C21: for n >= 0 items and batch size s >= 1, sliceIntoFixedBatches returns
\* ceil(n/s) batches, each non-empty and of length at most s, all but the last
\* of length exactly s, whose concatenation in order is the original list.
C21_SliceShape ==
    fnPc = "sliced" =>
        /\ Len(fnOut) = CeilDiv(Len(fnIn.items), fnIn.size)
        /\ \A b \in 1..Len(fnOut) : Len(fnOut[b]) >= 1 /\ Len(fnOut[b]) <= fnIn.size
        /\ \A b \in 1..(Len(fnOut) - 1) : Len(fnOut[b]) = fnIn.size
        /\ flat(fnOut) = fnIn.items

\* five items in batches of two: two full batches and a remainder of one
C21_Witness ==
    /\ fnPc = "sliced" /\ Len(fnIn.items) = 5 /\ fnIn.size = 2
    /\ fnOut = <<<<1, 2>>, <<3, 4>>, <<5>>>>

\* the list is what sliceIntoFixedBatches makes of its items for a batch size
\* of at least the threshold
SlicedWithin(bs, t) ==
    \E s \in 1..(MaxBatchLen + 1) : s >= t /\ bs = sliceIntoFixedBatches(flat(bs), s)

\* C24 as stated: for every list of batches and every threshold, applying
\* mergeTinyFinalBatch to its own result returns that result unchanged.
C24_MergeIdempotent ==
    fnPc = "mergedTwice" => fnOut.second = fnOut.first

\* C24 amended: on every list of batches made by sliceIntoFixedBatches with a
\* batch size of at least the threshold, applying mergeTinyFinalBatch to its
\* own result returns that result unchanged.
C24_MergeIdempotentOnSlices ==
    (fnPc = "mergedTwice" /\ SlicedWithin(fnIn.batches, fnIn.tiny)) =>
        fnOut.second = fnOut.first

\* a sliced list whose tiny last batch was merged, and the second application
\* left the merged list alone
C24_Witness ==
    /\ fnPc = "mergedTwice" /\ SlicedWithin(fnIn.batches, fnIn.tiny)
    /\ Len(fnIn.batches) = 3 /\ Len(fnOut.first) = 2
    /\ fnOut.second = fnOut.first

\* C25: one call of mergeTinyFinalBatch merges at most once and touches at
\* most the last two batches: the result is the same list or has one batch
\* fewer, the last two joined; batches before the second-to-last are
\* unchanged; a list of fewer than two batches, or with an empty last batch or
\* one longer than the threshold, is returned unchanged.
C25_AtMostOneMerge ==
    fnPc = "merged" =>
        LET in == fnIn.batches
            n == Len(in)
        IN  /\ \/ fnOut = in
               \/ /\ Len(fnOut) = n - 1
                  /\ fnOut[n - 1] = in[n - 1] \o in[n]
            /\ \A b \in 1..(n - 2) : b <= Len(fnOut) /\ fnOut[b] = in[b]
            /\ n < 2 => fnOut = in
            /\ (n >= 2 /\ (Len(in[n]) = 0 \/ Len(in[n]) > fnIn.tiny)) => fnOut = in

\* three batches of one item with threshold 2: one merge, and the new last
\* batch, tiny again, stays
C25_Witness ==
    /\ fnPc = "merged" /\ fnIn.tiny = 2
    /\ fnIn.batches = <<<<1>>, <<2>>, <<3>>>>
    /\ fnOut = <<<<1>>, <<2, 3>>>>

\* C26: with tinyThreshold = ceil(tinyFraction * s), when createBatches emits
\* two or more batches none is shorter than tinyThreshold and the last is
\* longer than it, every batch but the last has s items and the last at most
\* s + tinyThreshold; a batch shorter than tinyThreshold is the only batch.
C26_NoTinyBatchAmongSeveral ==
    fnPc = "created" =>
        LET t == tinyThresholdOf(fnIn.size, fnIn.tiny)
            n == Len(fnOut)
        IN  /\ n >= 2 =>
                  /\ \A b \in 1..n : Len(fnOut[b]) >= t
                  /\ Len(fnOut[n]) > t
                  /\ \A b \in 1..(n - 1) : Len(fnOut[b]) = fnIn.size
                  /\ Len(fnOut[n]) <= fnIn.size + t
            /\ \A b \in 1..n : Len(fnOut[b]) < t => n = 1
            /\ flat(fnOut) = fnIn.items

\* five items, size 2, fraction 0.5: the last batch of one is merged
C26_Witness ==
    /\ fnPc = "created" /\ Len(fnIn.items) = 5 /\ fnIn.size = 2 /\ fnIn.tiny = 50
    /\ fnOut = <<<<1, 2>>, <<3, 4, 5>>>>

-----------------------------------------------------------------------------
(* Properties of ensureUniqueKeys *)

\* C13: the keys ensureUniqueKeys gives the candidates of a batch are pairwise
\* distinct, so the schema built from them has one property per candidate.
C13_KeysPairwiseDistinct ==
    fnPc = "keyed" =>
        /\ \A i, j \in 1..Len(fnOut) : i # j => fnOut[i].key # fnOut[j].key
        /\ Cardinality(buildRelevancySchema([i \in 1..Len(fnOut) |-> fnOut[i].key]).properties)
              = Len(fnIn)

-----------------------------------------------------------------------------
(* Properties of the whole result *)

\* the batch an input candidate was put in, and its entry there
BatchOf(it) == CHOOSE b \in 1..Len(batches) : it \in Range(ItemsOf(batches[b]))
EntryOf(it) == CHOOSE c \in Range(ensureUniqueKeys(batches[BatchOf(it)])) : c.item = it
RawScoreOf(it) == Lookup(resp[BatchOf(it)].data.map, EntryOf(it).key)
ClampedOf(it) == clamp(RawScoreOf(it), Pt(0), Pt(10))

\* C14: in the list rerank returns every input candidate appears at most
\* once, whatever the batching, the duplicate keys, the scores and the batch
\* failures.
C14_NoCandidateTwice ==
    pc = "done" =>
        /\ \A i, j \in 1..Len(result) : i # j => result[i] # result[j]
        /\ Range(result) \subseteq Range(candidates)

\* a call with a duplicate key whose tiny last batch was merged into the
\* previous one, and the merged batch failed
C14_Witness ==
    /\ pc = "done" /\ path = "normal" /\ Len(candidates) = 3
    /\ Len(batches) < Len(sliceIntoFixedBatches(candidates, cfg.BATCH_SIZE))
    /\ \E i, j \in 1..Len(candidates) : i # j /\ candidates[i].key = candidates[j].key
    /\ \E b \in 1..Len(batches) : Failed(b)
    /\ Len(result) = 3

\* the scoring client threw or rejected for batch b
Throwing(b) == resp[b].kind \in {"throw", "reject"}

\* exactly one of several batches met a throwing client
OneOfSeveralThrows ==
    /\ pc = "done" /\ path = "normal" /\ Len(batches) >= 2
    /\ Cardinality({b \in 1..Len(batches) : Throwing(b)}) = 1

\* the part of batch b in the result is its candidates in original order
InOriginalOrder(b) == results[b].value = ItemsOf(batches[b])

\* the part of batch b in the result is ranked: descending clamped score,
\* original index among equal scores
RankedByScore(b) ==
    LET part == results[b].value
    IN  \A i, j \in 1..Len(part) :
            i < j => \/ ClampedOf(part[i]).n > ClampedOf(part[j]).n
                     \/ /\ ClampedOf(part[i]).n = ClampedOf(part[j]).n
                        /\ EntryOf(part[i]).idx < EntryOf(part[j]).idx

C18_EveryRecoveryLogged ==
    pc = "done" =>
        /\ path = "fallback" => warns >= 1
        /\ path = "normal" =>
               warns >= Cardinality({b \in 1..Len(batches) : Failed(b) \/ NoPayload(b)})

\* C20: no step of rerank changes the caller's candidate list, whatever the
\* outcome, and the batches made by partitioning and tiny-merge hold, read in
\* order, exactly the prepared list: nothing reordered, nothing removed.
C20_CandidatesNeverChanged ==
    /\ [][candidates' = candidates]_vars
    /\ [](pc \in {"awaiting", "done"} /\ path = "normal"
            => /\ flat(batches) = prepareCandidates(candidates)
               /\ ItemsOf(flat(batches)) = candidates)
    /\ [](pc = "done" /\ path \in {"fast", "fallback"} => result = candidates)

\* a finished call whose tiny last batch was merged and whose result is not
\* the input order
C20_Witness ==
    /\ pc = "done" /\ path = "normal" /\ Len(candidates) = 4
    /\ Len(batches) < Len(sliceIntoFixedBatches(candidates, cfg.BATCH_SIZE))
    /\ Len(result) = 4 /\ result # candidates

\* C16: an instance exists only with a valid configuration: construction
\* throws when the threshold is below 0 or above 10 and when no client is
\* resolvable, so rerank never runs with a threshold outside [0,10] or without
\* a client.
C16_OnlyValidInstances ==
    /\ (pc # "new" /\ (JsLt(Threshold, Pt(0)) \/ JsGt(Threshold, Pt(10)))) => pc = "ctorThrew"
    /\ (pc # "new" /\ ~ctx.llm /\ ctx.groqKey # "set") => pc = "ctorThrew"
    /\ pc \in {"idle", "awaiting", "done"} =>
           /\ Threshold.k = "number" /\ Threshold.n >= Pt(0) /\ Threshold.n <= Pt(10)
           /\ llm # "none"

\* C17: a second call of rerank on the same instance with the same query
\* and candidates, answered by a deterministic client, resolves with the list
\* the first call resolved with.
C17_SecondCallSameList ==
    (earlier.done /\ pc = "done") => (outcome = "resolved" /\ result = earlier.result)

\* two finished calls over candidates with duplicate keys in two batches, the
\* list returned being a ranked one
C17_Witness ==
    /\ earlier.done /\ pc = "done" /\ path = "normal"
    /\ Len(batches) = 2
    /\ \E i, j \in 1..Len(candidates) : i # j /\ candidates[i].key = candidates[j].key
    /\ result = earlier.result /\ Len(result) >= 2 /\ result # candidates

\* an attempt that failed with error code json_validate_failed, the code read
\* from err.code and, when that is missing, from err.error.code
ValidationFailure(o) ==
    o.t = "sdkError" /\ (IF o.code # "absent" THEN o.code ELSE o.inner) = "json_validate_failed"

\* C19: a call of the default Groq client makes at most 3 attempts; attempt
\* k+1 is made if and only if attempt k failed with code json_validate_failed
\* and k < 3; a success resolves at once with its parsed data, a third
\* validation failure rejects with that last error, and any other failure
\* (no content, invalid JSON, unsupported role) rejects without a retry.
C19_AtMostThreeAttempts ==
    LET n == Len(groq.attempts)
    IN  groq.pc # "off" =>
        /\ n <= 3
        /\ \A k \in 1..(n - 1) : ValidationFailure(groq.attempts[k])
        /\ groq.pc = "attempting" =>
               n < 3 /\ (n >= 1 => ValidationFailure(groq.attempts[n]))
        /\ groq.pc = "resolved" =>
               n >= 1 /\ groq.attempts[n].t = "content" /\ groq.settled = groq.attempts[n]
        /\ groq.pc = "rejected" =>
               IF groq.roles = "unsupported" THEN n = 0 /\ groq.settled = UnsupportedRole
               ELSE /\ n >= 1 /\ groq.settled = groq.attempts[n]
                    /\ groq.attempts[n].t # "content"
                    /\ ValidationFailure(groq.attempts[n]) => n = 3

\* two validation failures, one reported in err.error.code, then a third:
\* rejected with it after exactly 3 attempts
C19_Witness ==
    /\ groq.pc = "rejected" /\ Len(groq.attempts) = 3
    /\ groq.attempts[1] = SdkError("absent", "json_validate_failed")
    /\ groq.attempts[2] = SdkError("json_validate_failed", "absent")
    /\ groq.settled = SdkError("json_validate_failed", "absent")

\* the batches as the scoring function sees them, one after the other
KeyedBatches == flat([b \in 1..Len(batches) |-> ensureUniqueKeys(batches[b])])

\* C22: for n >= 2 candidates the batches handed to the scoring function,
\* after createBatches and ensureUniqueKeys, hold each original index 0..n-1
\* exactly once, in increasing order across the batches, each with its own
\* candidate.
C22_EveryIndexOnce ==
    (pc \in {"awaiting", "done"} /\ path = "normal") =>
        LET keyed == KeyedBatches
        IN  /\ Len(candidates) >= 2
            /\ [i \in 1..Len(keyed) |-> keyed[i].idx] = [i \in 1..Len(candidates) |-> i - 1]
            /\ \A i \in 1..Len(keyed) : keyed[i].item = candidates[i]

\* four candidates with the same key, the tiny second batch merged into the
\* first
C22_Witness ==
    /\ pc = "awaiting" /\ Len(candidates) = 4 /\ cfg.BATCH_SIZE = 3
    /\ \A i \in 1..4 : candidates[i].key = "Same"
    /\ Len(batches) = 1 /\ Len(KeyedBatches) = 4

\* C23: in each batch, on its own, the first candidate with a base key keeps
\* the bare base key and every later one gets "{baseKey} ({idx})" with its
\* original index in the whole input; the renamed keys of a batch are
\* pairwise distinct.
C23_FirstBareLaterRenamed ==
    (pc \in {"awaiting", "done"} /\ path = "normal") =>
        \A b \in 1..Len(batches) :
            LET in == batches[b]
                keyed == ensureUniqueKeys(in)
                First(i) == \A j \in 1..(i - 1) : in[j].baseKey # in[i].baseKey
            IN  /\ Len(keyed) = Len(in)
                /\ \A i \in 1..Len(in) :
                       keyed[i].key = IF First(i) THEN in[i].baseKey
                                      ELSE in[i].baseKey \o " (" \o ToString(in[i].idx) \o ")"
                /\ \A i, j \in 1..Len(in) :
                       (i # j /\ ~First(i) /\ ~First(j)) => keyed[i].key # keyed[j].key

\* four candidates with one key in two batches of two: the second batch keeps
\* the key bare for index 2 and renames index 3 by its index in the input
C23_Witness ==
    /\ pc \in {"awaiting", "done"} /\ path = "normal"
    /\ Len(candidates) = 4 /\ Len(batches) = 2
    /\ ensureUniqueKeys(batches[1])[2].key = "Same (1)"
    /\ ensureUniqueKeys(batches[2])[1].key = "Same"
    /\ ensureUniqueKeys(batches[2])[2].key = "Same (3)"

\* C27: for n >= 2 candidates rerank starts exactly one scoring call per batch
\* of createBatches, in batch order, and has started all of them before the
\* result of any of them is handled; the other paths start none.
C27_OneCallPerBatchAllStartedFirst ==
    /\ (pc \in {"awaiting", "done"} /\ path = "normal") =>
           /\ batches = createBatches(prepareCandidates(candidates), cfg.BATCH_SIZE,
                                      cfg.TINY_BATCH_FRACTION)
           /\ started = [b \in 1..Len(batches) |-> b]
           /\ calls = Len(batches)
    /\ Len(order) >= 1 => Len(started) = Len(batches)
    /\ (pc = "idle" \/ path \in {"fast", "fallback"}) => (started = <<>> /\ calls = 0)

\* two batches, both calls started, the second handled first and failed
C27_Witness ==
    /\ pc = "done" /\ path = "normal" /\ Len(batches) = 2
    /\ started = <<1, 2>> /\ calls = 2 /\ order = <<2, 1>>
    /\ Failed(2) /\ Scored(1)

\* C28: when the list of a rerank call has been delivered, no scoring call of
\* that call is still pending: every batch's call has settled, resolved or
\* rejected, and its task has run, also when some batches failed.
C28_NoPendingCallAtDelivery ==
    (pc = "done" /\ path = "normal") =>
        /\ outcome = "resolved"
        /\ Len(order) = Len(batches)
        /\ \A b \in 1..Len(batches) :
               /\ resp[b] # Pending
               /\ Failed(b) \/ Scored(b) \/ NoPayload(b)
               /\ results[b].done

\* delivered after the first of two batches was rejected early and the second
\* was scored later
C28_Witness ==
    /\ pc = "done" /\ path = "normal" /\ Len(batches) = 2
    /\ resp[1] = Rejects /\ Scored(2) /\ order = <<1, 2>>
    /\ Len(results[2].value) >= 1

\* C30: an input candidate is missing from the list rerank returns only if
\* the input has at least two candidates, the call of its batch resolved with
\* an object payload and its clamped score is not above the threshold; the
\* candidates of a rejected batch, of a batch without an object payload, and
\* all candidates after a top-level fallback are in the list.
C30_MissingOnlyIfScoredLow ==
    pc = "done" =>
        /\ \A it \in Range(candidates) :
               it \notin Range(result) =>
                   /\ Len(candidates) >= 2 /\ path = "normal"
                   /\ Scored(BatchOf(it))
                   /\ DataModelScore(RawScoreOf(it)) <= Threshold.n
        /\ path = "normal" =>
               \A b \in 1..Len(batches) :
                   (Failed(b) \/ NoPayload(b)) =>
                       Range(ItemsOf(batches[b])) \subseteq Range(result)
        /\ path = "fallback" => Range(candidates) \subseteq Range(result)

\* threshold 5: a candidate scored exactly 5 is missing, the candidates of the
\* batch whose payload was null are all there
C30_Witness ==
    /\ pc = "done" /\ path = "normal" /\ Len(batches) = 2 /\ Threshold = Number(Pt(5))
    /\ Scored(1) /\ resp[2] = Resolves(DataNull)
    /\ \E it \in Range(ItemsOf(batches[1])) :
          it \notin Range(result) /\ RawScoreOf(it) = Number(Pt(5))
    /\ Range(ItemsOf(batches[2])) \subseteq Range(result)

\* C29: for every configuration the constructor accepts and every candidate
\* list, a call of rerank eventually resolves, given that every scoring call
\* eventually settles; partitioning terminates for every accepted batch size.
C29_RerankEventuallyResolves ==
    (pc = "idle") ~> (pc = "done" /\ outcome = "resolved")

\* C9: when every batch was scored, the list rerank returns is in descending
\* order of clamped score over the whole list, ties in input order.
C9_GloballySorted ==
    (pc = "done" /\ path = "normal" /\ \A b \in 1..Len(batches) : Scored(b)) =>
        \A i \in 1..(Len(result) - 1) :
            /\ ClampedOf(result[i]).n >= ClampedOf(result[i + 1]).n
            /\ ClampedOf(result[i]).n = ClampedOf(result[i + 1]).n
                  => EntryOf(result[i]).idx < EntryOf(result[i + 1]).idx

\* C10: with threshold 0 every candidate of a scored batch that was given a
\* number is in the list rerank returns, whatever the number.
C10_ThresholdZeroKeepsAll ==
    (pc = "done" /\ path = "normal" /\ Threshold = Number(Pt(0))) =>
        \A b \in 1..Len(batches) :
            Scored(b) =>
                \A it \in Range(ItemsOf(batches[b])) :
                    RawScoreOf(it).k = "number" => it \in Range(result)

====
